---- MODULE Spec2Model ----
(***************************************************************************)
(* Mailrice control plane: domain and mailbox provisioning.                *)
(*                                                                         *)
(* Text is a sequence of chunks.  A chunk is one character wherever the    *)
(* code inspects characters (domain names, selectors, local parts, the     *)
(* separators of the OpenDKIM table lines) and a whole literal elsewhere   *)
(* ("_domainkey", "/etc/opendkim/keys", key material).  No literal chunk   *)
(* contains a ".", an "@" or a space, so the substring tests of            *)
(* update_opendkim_tables see exactly what they see on the real strings.   *)
(***************************************************************************)
EXTENDS Integers, Sequences, FiniteSets, TLC

(* ------------------------------ bounds -------------------------------- *)

\* requests accepted in one behaviour
MaxOps == 3

\* failures of external dependencies in one behaviour
MaxFaults == 1

\* worker processes serving requests side by side
Workers == {"w1", "w2"}

(* ------------------------------- text --------------------------------- *)

LOWER == <<"a","b","c","d","e","f","g","h","i","j","k","l","m",
           "n","o","p","q","r","s","t","u","v","w","x","y","z">>

UPPER == <<"A","B","C","D","E","F","G","H","I","J","K","L","M",
           "N","O","P","Q","R","S","T","U","V","W","X","Y","Z">>

DIGITS == {"0","1","2","3","4","5","6","7","8","9"}

Range(s) == {s[i] : i \in 1..Len(s)}

IsLetter(c) == c \in Range(LOWER) \cup Range(UPPER)

IsAlnum(c) == IsLetter(c) \/ c \in DIGITS

\* str.lower() on one character
LowerChar(c) ==
  IF c \in Range(UPPER)
    THEN LOWER[CHOOSE i \in 1..Len(UPPER) : UPPER[i] = c]
    ELSE c

\* str.lower()
Lower(s) == [i \in 1..Len(s) |-> LowerChar(s[i])]

\* pat in s
Contains(s, pat) ==
  \E i \in 1..(Len(s) - Len(pat) + 1) :
    \A j \in 1..Len(pat) : s[i + j - 1] = pat[j]

StartsWith(s, pat) ==
  Len(s) >= Len(pat) /\ \A j \in 1..Len(pat) : s[j] = pat[j]

EndsWith(s, pat) ==
  Len(s) >= Len(pat) /\ \A j \in 1..Len(pat) : s[Len(s) - Len(pat) + j] = pat[j]

\* s.split(sep) for a one-character sep
RECURSIVE Split(_, _)
Split(s, sep) ==
  IF \A i \in 1..Len(s) : s[i] # sep
    THEN <<s>>
    ELSE LET k == CHOOSE i \in 1..Len(s) :
                    s[i] = sep /\ \A j \in 1..(i - 1) : s[j] # sep
         IN <<SubSeq(s, 1, k - 1)>> \o Split(SubSeq(s, k + 1, Len(s)), sep)

(* ------------------------ request validation ------------------------- *)

LOCALHOST == <<"l","o","c","a","l","h","o","s","t">>

LOCALHOST_LOCALDOMAIN ==
  LOCALHOST \o <<".","l","o","c","a","l","d","o","m","a","i","n">>

\* [a-zA-Z0-9](?:[a-zA-Z0-9-]{0,61}[a-zA-Z0-9])?
LabelOk(l) ==
  /\ Len(l) >= 1
  /\ Len(l) <= 63
  /\ IsAlnum(l[1])
  /\ IsAlnum(l[Len(l)])
  /\ \A i \in 1..Len(l) : IsAlnum(l[i]) \/ l[i] = "-"

\* [a-zA-Z]{2,}
TldOk(l) == Len(l) >= 2 /\ \A i \in 1..Len(l) : IsLetter(l[i])

\* ^(?:label\.)+tld$
DomainRegexMatch(v) ==
  LET parts == Split(v, ".")
      n == Len(parts)
  IN /\ n >= 2
     /\ \A i \in 1..(n - 1) : LabelOk(parts[i])
     /\ TldOk(parts[n])

Rejected == [ok |-> FALSE, value |-> <<>>]

Accepted(v) == [ok |-> TRUE, value |-> v]

\* a validator that returns the name in the case it came in
validate_domain_cased(v) ==
  IF \/ v = <<>>
     \/ ~DomainRegexMatch(v)
     \/ Len(v) > 253
     \/ Lower(v) \in {LOCALHOST, LOCALHOST_LOCALDOMAIN}
     \/ Len(Split(v, ".")[Len(Split(v, "."))]) < 2
    THEN Rejected
    ELSE Accepted(v)

\* CreateDomainRequest.validate_domain
validate_domain(v) ==
  IF \/ v = <<>>
     \/ ~DomainRegexMatch(v)
     \/ Len(v) > 253
     \/ Lower(v) \in {LOCALHOST, LOCALHOST_LOCALDOMAIN}
     \/ Len(Split(v, ".")[Len(Split(v, "."))]) < 2
    THEN Rejected
    ELSE Accepted(Lower(v))

\* CreateDomainRequest.validate_dkim_selector
validate_dkim_selector(v) ==
  IF \/ v = <<>>
     \/ \E i \in 1..Len(v) : ~(v[i] \in Range(LOWER) \cup DIGITS \cup {"-"})
     \/ Len(v) > 63
     \/ v[1] = "-"
     \/ v[Len(v)] = "-"
    THEN Rejected
    ELSE Accepted(Lower(v))

\* the specials of the local-part pattern (the backquote, which the pattern
\* also admits, cannot be written in a string here)
LOCAL_SPECIALS ==
  {".","!","#","$","%","&","'","*","+","/","=","?","^","_","{","|","}","~","-"}

RESERVED ==
  { <<"p","o","s","t","m","a","s","t","e","r">>, <<"a","b","u","s","e">>,
    <<"n","o","c">>, <<"s","e","c","u","r","i","t","y">>,
    <<"h","o","s","t","m","a","s","t","e","r">>, <<"u","s","e","n","e","t">>,
    <<"n","e","w","s">>, <<"w","e","b","m","a","s","t","e","r">>,
    <<"w","w","w">>, <<"u","u","c","p">>, <<"f","t","p">> }

\* CreateMailboxRequest.validate_local_part
validate_local_part(v) ==
  IF \/ v = <<>>
     \/ \E i \in 1..Len(v) : ~(IsAlnum(v[i]) \/ v[i] \in LOCAL_SPECIALS)
     \/ Len(v) > 64
     \/ v[1] = "."
     \/ v[Len(v)] = "."
     \/ Contains(v, <<".", ".">>)
     \/ Lower(v) \in RESERVED
    THEN Rejected
    ELSE Accepted(Lower(v))

(* ------------------------------ DKIM ---------------------------------- *)

\* the p= payload of the n-th key pair opendkim-genkey produces
Material(n) == "MIIBIjANBgkq" \o ToString(n)

IsMaterial(c) == \E n \in 1..(MaxOps + 1) : c = Material(n)

\* Path(keys_dir) / domain / f"{selector}.private"
PrivateKeyPath(domain, selector) ==
  <<"/etc/opendkim/keys", "/">> \o domain \o <<"/">> \o selector
    \o <<".", "private">>

\* f"{selector}._domainkey.{domain}"
DkimName(selector, domain) == selector \o <<".", "_domainkey", ".">> \o domain

\* the <selector>.txt file opendkim-genkey writes for key pair n
GenkeyTxt(selector, n) ==
  selector \o <<".", "_domainkey", " IN TXT ( ", "\"", "v=DKIM1; k=rsa; ", "\"",
               "\n", "\t", "\"", "p=", Material(n), "\"", " )">>

\* a <selector>.txt file with no p= payload in it
BrokenTxt(selector) ==
  selector \o <<".", "_domainkey", " IN TXT ( ", "\"", "v=DKIM1; k=rsa; ", "\"",
               " )">>

NoMatch == <<>>

\* extract_public_key_from_txt: the first p= followed by base64 characters,
\* searched after the newlines and tabs are removed; NoMatch stands for the
\* ValueError
extract_public_key_from_txt(txt_content) ==
  LET flat == SelectSeq(txt_content, LAMBDA c : c \notin {"\n", "\t"})
      hits == {i \in 1..(Len(flat) - 1) : flat[i] = "p=" /\ IsMaterial(flat[i + 1])}
  IN IF hits = {}
       THEN NoMatch
       ELSE <<flat[(CHOOSE i \in hits : \A j \in hits : i <= j) + 1]>>

\* key_entry of update_opendkim_tables
KeyEntry(domain, selector, private_key_path) ==
  DkimName(selector, domain) \o <<" ">> \o domain \o <<":">> \o selector
    \o <<":">> \o private_key_path \o <<"\n">>

\* signing_entry of update_opendkim_tables
SigningEntry(domain, selector) ==
  <<"*", "@">> \o domain \o <<" ">> \o DkimName(selector, domain) \o <<"\n">>

\* an update that appends the entry and filters nothing out
AppendKeyEntry(key_table, domain, selector, private_key_path) ==
  Append(key_table, KeyEntry(domain, selector, private_key_path))

\* [line for line in key_table if f".{domain} " not in line] + [key_entry]
NewKeyTable(key_table, domain, selector, private_key_path) ==
  Append(SelectSeq(key_table,
                   LAMBDA line : ~Contains(line, <<".">> \o domain \o <<" ">>)),
         KeyEntry(domain, selector, private_key_path))

\* an update that appends the entry and filters nothing out
AppendSigningEntry(signing_table, domain, selector) ==
  Append(signing_table, SigningEntry(domain, selector))

\* [line for line in signing_table if f"@{domain} " not in line] + [signing_entry]
NewSigningTable(signing_table, domain, selector) ==
  Append(SelectSeq(signing_table,
                   LAMBDA line : ~Contains(line, <<"@">> \o domain \o <<" ">>)),
         SigningEntry(domain, selector))

(* ------------------------------- DNS ---------------------------------- *)

\* f"v=spf1 ip4:{server_ip} a:{hostname} ~all"
SpfPolicy(server_ip, hostname) ==
  <<"v=spf1 ip4:">> \o server_ip \o <<" a:">> \o hostname \o <<" ~all">>

\* f"v=DMARC1; p=quarantine; rua=mailto:dmarc@{domain}; ruf=...; adkim=r"
DmarcPolicy(domain) ==
  <<"v=DMARC1; p=quarantine; rua=mailto:dmarc@">> \o domain
    \o <<"; ruf=mailto:dmarc@">> \o domain
    \o <<"; fo=1; pct=100; aspf=r; adkim=r">>

\* f"v=DKIM1; k=rsa; p={public_key}"
DkimValue(public_key) == <<"v=DKIM1; k=rsa; p=">> \o public_key

\* a lookup that finds nothing
get_no_record(zone, record_type, name) == {}

\* CloudflareAPI.get_record: the first record of that type and name, if any
get_record(zone, record_type, name) ==
  LET found == {r \in zone : r.type = record_type /\ r.name = name}
  IN IF found = {}
       THEN {}
       ELSE {CHOOSE r \in found : \A q \in found : r.id <= q.id}

\* an upsert that posts a new record whether or not there is one
create_record(zone, record_type, name, content) ==
  zone \cup {[id |-> Cardinality(zone) + 1, type |-> record_type,
             name |-> name, content |-> content]}

\* CloudflareAPI.create_or_update_record, the request answered with success
create_or_update_record(zone, record_type, name, content) ==
  LET existing == get_record(zone, record_type, name)
  IN IF existing # {}
       THEN (zone \ existing)
              \cup {[r EXCEPT !.content = content] : r \in existing}
       ELSE zone \cup {[id |-> Cardinality(zone) + 1, type |-> record_type,
                        name |-> name, content |-> content]}

\* the four upserts with DMARC moved to the front
DmarcFirst(domain, hostname, server_ip, dkim_selector, dkim_public_key) ==
  << [type |-> "TXT", name |-> <<"_dmarc", ".">> \o domain,
      content |-> DmarcPolicy(domain)],
     [type |-> "MX", name |-> domain, content |-> hostname],
     [type |-> "TXT", name |-> domain,
      content |-> SpfPolicy(server_ip, hostname)],
     [type |-> "TXT", name |-> DkimName(dkim_selector, domain),
      content |-> DkimValue(dkim_public_key)] >>

\* the four upserts of CloudflareAPI.create_domain_records, in their order
DomainRecords(domain, hostname, server_ip, dkim_selector, dkim_public_key) ==
  << [type |-> "MX", name |-> domain, content |-> hostname],
     [type |-> "TXT", name |-> domain,
      content |-> SpfPolicy(server_ip, hostname)],
     [type |-> "TXT", name |-> DkimName(dkim_selector, domain),
      content |-> DkimValue(dkim_public_key)],
     [type |-> "TXT", name |-> <<"_dmarc", ".">> \o domain,
      content |-> DmarcPolicy(domain)] >>

RECURSIVE ApplyUpserts(_, _, _)
ApplyUpserts(zone, records, n) ==
  IF n = 0
    THEN zone
    ELSE LET before == ApplyUpserts(zone, records, n - 1)
         IN create_or_update_record(before, records[n].type, records[n].name,
                                    records[n].content)

\* CloudflareAPI.create_domain_records when the provider fails upsert number
\* fail_at (0: none fails): the zone afterwards, and whether it returned
create_domain_records(zone, domain, hostname, server_ip, dkim_selector, dkim_public_key, fail_at) ==
  LET records == DomainRecords(domain, hostname, server_ip, dkim_selector,
                               dkim_public_key)
  IN [zone |-> ApplyUpserts(zone, records,
                            IF fail_at = 0 THEN Len(records) ELSE fail_at - 1),
      ok |-> fail_at = 0]

(* ----------------------------- network -------------------------------- *)

\* str.strip()
RECURSIVE Strip(_)
Strip(s) ==
  IF s # <<>> /\ s[1] \in {" ", "\n", "\t"} THEN Strip(Tail(s))
  ELSE IF s # <<>> /\ s[Len(s)] \in {" ", "\n", "\t"}
         THEN Strip(SubSeq(s, 1, Len(s) - 1))
         ELSE s

HttpError == [ok |-> FALSE, text |-> <<>>]

HttpOk(text) == [ok |-> TRUE, text |-> text]

\* get_public_ip: net.services are the answers of api.ipify.org, ifconfig.me
\* and icanhazip.com in that order, net.socket the outcome of the socket method
get_public_ip(net) ==
  LET answered == {i \in 1..Len(net.services) : net.services[i].ok}
  IN IF answered # {}
       THEN [ok |-> TRUE,
             ip |-> Strip(net.services[CHOOSE i \in answered :
                                         \A j \in answered : i <= j].text)]
       ELSE IF net.socket.ok
              THEN [ok |-> TRUE, ip |-> net.socket.text]
              ELSE [ok |-> FALSE, ip |-> <<>>]

(* --------------------------- the requests ----------------------------- *)

\* domain names clients send: two spellings of one name, a subdomain of it,
\* and a name with no dot
RawDomains ==
  { <<"b",".","c","o">>, <<"B",".","c","o">>, <<"a",".","b",".","c","o">>,
    <<"b">> }

\* domain names clients send while two workers serve them: two unrelated names
ParDomains == { <<"b",".","c","o">>, <<"c",".","c","o">> }

\* selectors clients send: two that validate_dkim_selector accepts, and one
\* with an upper-case letter, which it rejects
RawSelectors == { <<"m">>, <<"n">>, <<"M">> }

\* local parts clients send
RawLocalParts == { <<"u">> }

\* settings.HOSTNAME
HOSTNAME == <<"mail.example.net">>

\* the one workspace of the one tenant
WORKSPACE == 1

\* addresses the lookup services report, and the one of the local socket
ADDRESS == <<"203", ".", "0", ".", "113", ".", "1">>

OTHER_ADDRESS == <<"203", ".", "0", ".", "113", ".", "2">>

LOCAL_ADDRESS == <<"10", ".", "0", ".", "0", ".", "5">>

\* what the lookup services answer: all three with one address, the first
\* down and the next with another address, or nothing reachable at all
NetScenarios ==
  { [services |-> <<HttpOk(ADDRESS \o <<"\n">>), HttpOk(ADDRESS),
                    HttpOk(ADDRESS \o <<"\n">>)>>,
     socket |-> HttpOk(LOCAL_ADDRESS)],
    [services |-> <<HttpError, HttpOk(OTHER_ADDRESS),
                    HttpOk(OTHER_ADDRESS \o <<"\n">>)>>,
     socket |-> HttpOk(LOCAL_ADDRESS)],
    [services |-> <<HttpError, HttpError, HttpError>>, socket |-> HttpError] }

(* ------------------------------ state --------------------------------- *)

VARIABLES
  domains,          \* rows of table domains
  mailboxes,        \* rows of table mailboxes
  events,           \* rows of table events, in insertion order
  domain_id_seq,    \* last value of the domains.id sequence
  mailbox_id_seq,   \* last value of the mailboxes.id sequence
  keyfiles,         \* /etc/opendkim/keys: private key path -> key pair files
  KeyTable,         \* /etc/opendkim/KeyTable, a list of lines
  SigningTable,     \* /etc/opendkim/SigningTable, a list of lines
  zone,             \* the records the DNS provider holds
  maildirs,         \* mailbox directories under /var/vmail
  cf_configured,    \* settings.CF_API_TOKEN and settings.CF_ZONE_ID are set
  tasks,            \* per worker: the request it serves and its locals
  client_domains,   \* the domain names the clients of this run send
  ops,              \* requests the clients have yet to send
  faults,           \* failures the external dependencies have yet to show
  probe             \* a utility called on its own: its arguments and result

vars == <<domains, mailboxes, events, domain_id_seq, mailbox_id_seq, keyfiles,
          KeyTable, SigningTable, zone, maildirs, cf_configured, tasks,
          client_domains, ops, faults, probe>>

database == <<domains, mailboxes, events, domain_id_seq, mailbox_id_seq>>

opendkim == <<keyfiles, KeyTable, SigningTable>>

environment == <<cf_configured, client_domains, probe>>

\* no utility is called on its own while requests are served
NoProbe ==
  [fn |-> "none", args |-> <<>>, before |-> {}, ok |-> FALSE, out |-> <<>>,
   prev |-> [fn |-> "none", args |-> <<>>, ok |-> FALSE]]

\* a call of a utility: what it was given, the state it found, whether it
\* returned, what it returned, and the call before it
Called(fn, args, before, ok, out) ==
  [fn |-> fn, args |-> args, before |-> before, ok |-> ok, out |-> out,
   prev |-> [fn |-> probe.fn, args |-> probe.args, ok |-> probe.ok]]

NoRow == [id |-> 0]

\* A worker's request and locals.  dns is what became of the DNS step
\* ("none": not taken, "created", "failed"), cleanup what became of the
\* removal of a mailbox directory ("none", "removed", "failed").  Five fields
\* are kept for the properties only: key_found (generate_dkim_key found the
\* key file there), failure (the dependency whose failure ended the request),
\* stage and aborted_from (how far the attempt got), old (the domain row as
\* the request found it) and events_before (the length of the event log then)

IdleTask ==
  [pc |-> "idle", op |-> "none", raw_domain |-> <<>>, domain |-> <<>>,
   selector |-> <<>>, domain_id |-> 0, local_part |-> <<>>,
   private_key_path |-> <<>>, public_key |-> <<>>, key_table |-> <<>>,
   signing_table |-> <<>>, server_ip |-> <<>>, dns |-> "none",
   spf_policy |-> <<>>, row_id |-> 0, status_code |-> 0, detail |-> "",
   cleanup |-> "none", key_found |-> FALSE, failure |-> "none",
   stage |-> "none",
   aborted_from |-> "none", old |-> NoRow, events_before |-> 0]


\* an external dependency may fail while the run has failures left
MayFail == faults > 0

Charge(failed) == faults' = IF failed THEN faults - 1 ELSE faults

\* the request ends: the response status, and for an error its cause and the
\* stage of the attempt it ended
Respond(t, code, detail) ==
  [t EXCEPT !.pc = "done", !.status_code = code, !.detail = detail,
            !.aborted_from = IF code >= 400 THEN t.stage ELSE "none",
            !.stage = IF code >= 400 /\ t.stage # "none" THEN "aborted"
                                                          ELSE t.stage]

\* the except clauses of the routes: create_domain and create_mailbox answer
\* a ValueError with 400 and anything else with 500; rotate_dkim,
\* update_mailbox_password and delete_mailbox answer every exception with 500
RouteStatus(op, exc) ==
  IF exc = "ValueError" /\ op \in {"create_domain", "create_mailbox"}
    THEN 400
    ELSE 500

Raise(t, exc, detail) == Respond(t, RouteStatus(t.op, exc), detail)

Set(w, t) == tasks' = [tasks EXCEPT ![w] = t]

At(w, pc) == tasks[w].pc = pc

(* --------------------------- create_domain ---------------------------- *)

\* POST /api/domains: request validation, then provision_domain is entered
CreateDomain(w) ==
  /\ At(w, "idle")
  /\ ops > 0
  /\ ops' = ops - 1
  /\ \E d \in client_domains, s \in RawSelectors :
       LET vd == validate_domain(d)
           vs == validate_dkim_selector(s)
           t == [IdleTask EXCEPT !.op = "create_domain", !.raw_domain = d,
                                 !.events_before = Len(events)]
       IN IF vd.ok /\ vs.ok
            THEN Set(w, [t EXCEPT !.pc = "pd_check", !.stage = "started",
                                  !.domain = vd.value, !.selector = vs.value])
            ELSE Set(w, Respond(t, 422, "validation"))
  /\ UNCHANGED <<database, opendkim, zone, maildirs, environment, faults>>

\* provision_domain: the existence check
ProvisionDomainCheck(w) ==
  /\ At(w, "pd_check")
  /\ LET t == tasks[w]
     IN IF \E r \in domains : r.domain = t.domain
          THEN Set(w, Raise(t, "ValueError", "duplicate"))
          ELSE Set(w, [t EXCEPT !.pc = "dk_genkey"])
  /\ UNCHANGED <<database, opendkim, zone, maildirs, environment, ops, faults>>

(* ---------------------- provision_dkim_for_domain --------------------- *)

\* a key that is generated whether or not there is one
KeyNeverExists(files, path) == FALSE

\* private_key_path.exists()
KeyExists(files, path) == path \in DOMAIN files

\* generate_dkim_key.  tool is what opendkim-genkey does if it is run ("ok",
\* "error": it exits non-zero, "missing": it exits zero and leaves no files,
\* "bad_txt": it leaves a .txt file with no key in it), chown what chown does
generate_dkim_key(files, domain, selector, tool, chown) ==
  LET path == PrivateKeyPath(domain, selector)
      n == Cardinality(DOMAIN files) + 1
      exists == KeyExists(files, path)
      generated ==
        IF exists THEN files
        ELSE IF tool = "ok"
          THEN (path :> [serial |-> n, txt |-> GenkeyTxt(selector, n)]) @@ files
        ELSE IF tool = "bad_txt"
          THEN (path :> [serial |-> n, txt |-> BrokenTxt(selector)]) @@ files
        ELSE files
      public_key ==
        IF path \in DOMAIN generated
          THEN extract_public_key_from_txt(generated[path].txt)
          ELSE NoMatch
  IN [files |-> generated,
      error |-> IF ~exists /\ tool = "error" THEN "CalledProcessError"
                ELSE IF ~exists /\ tool = "missing" THEN "FileNotFoundError"
                ELSE IF chown = "fail" THEN "CalledProcessError"
                ELSE IF public_key = NoMatch THEN "ValueError"
                ELSE "none",
      private_key_path |-> path,
      public_key |-> public_key]

\* where the caller of provision_dkim_for_domain goes on
AfterDkim(t) ==
  IF t.op = "create_domain"
    THEN [t EXCEPT !.pc = "pd_resolve_ip", !.stage = "key_ready"]
    ELSE [t EXCEPT !.pc = "rk_commit"]

\* a caller that logs the exception and goes on
DkimFailureIgnored(t) == AfterDkim(t)

\* an exception of provision_dkim_for_domain: provision_domain raises it
\* again, rotate_dkim_key lets it through
DkimFailed(t) == Raise(t, "Exception", "dkim")

\* provision_dkim_for_domain: generate_dkim_key
DkimGenerateKey(w) ==
  /\ At(w, "dk_genkey")
  /\ \E tool \in {"ok", "error", "missing", "bad_txt"}, chown \in {"ok", "fail"} :
       LET t == tasks[w]
           exists == PrivateKeyPath(t.domain, t.selector) \in DOMAIN keyfiles
           failed == (~exists /\ tool # "ok") \/ chown = "fail"
           r == generate_dkim_key(keyfiles, t.domain, t.selector, tool, chown)
       IN /\ failed => MayFail
          /\ Charge(failed)
          /\ keyfiles' = r.files
          /\ IF r.error # "none"
               THEN Set(w, DkimFailed([t EXCEPT !.failure = "dkim"]))
               ELSE Set(w, [t EXCEPT !.pc = "tbl_read_key",
                                     !.key_found = exists,
                                     !.private_key_path = r.private_key_path,
                                     !.public_key = r.public_key])
  /\ UNCHANGED <<database, KeyTable, SigningTable, zone, maildirs,
                 environment, ops>>

\* update_opendkim_tables: key_table = f.readlines()
UpdateReadKeyTable(w) ==
  /\ At(w, "tbl_read_key")
  /\ Set(w, [tasks[w] EXCEPT !.pc = "tbl_read_signing", !.key_table = KeyTable])
  /\ UNCHANGED <<database, opendkim, zone, maildirs, environment, ops, faults>>

\* update_opendkim_tables: signing_table = f.readlines()
UpdateReadSigningTable(w) ==
  /\ At(w, "tbl_read_signing")
  /\ Set(w, [tasks[w] EXCEPT !.pc = "tbl_write_key",
                             !.signing_table = SigningTable])
  /\ UNCHANGED <<database, opendkim, zone, maildirs, environment, ops, faults>>

\* update_opendkim_tables: the KeyTable is rewritten from the lines read
UpdateWriteKeyTable(w) ==
  /\ At(w, "tbl_write_key")
  /\ LET t == tasks[w]
     IN /\ KeyTable' = NewKeyTable(t.key_table, t.domain, t.selector,
                                   t.private_key_path)
        /\ Set(w, [t EXCEPT !.pc = "tbl_write_signing", !.key_table = <<>>])
  /\ UNCHANGED <<database, keyfiles, SigningTable, zone, maildirs,
                 environment, ops, faults>>

\* update_opendkim_tables: the SigningTable is rewritten from the lines read
UpdateWriteSigningTable(w) ==
  /\ At(w, "tbl_write_signing")
  /\ LET t == tasks[w]
     IN /\ SigningTable' = NewSigningTable(t.signing_table, t.domain, t.selector)
        /\ Set(w, [t EXCEPT !.pc = "tbl_reload", !.signing_table = <<>>])
  /\ UNCHANGED <<database, keyfiles, KeyTable, zone, maildirs, environment,
                 ops, faults>>

\* update_opendkim_tables: systemctl reload opendkim, check=True
UpdateReload(w) ==
  /\ At(w, "tbl_reload")
  /\ \E reloaded \in BOOLEAN :
       /\ ~reloaded => MayFail
       /\ Charge(~reloaded)
       /\ IF reloaded
            THEN Set(w, AfterDkim(tasks[w]))
            ELSE Set(w, DkimFailed([tasks[w] EXCEPT !.failure = "reload"]))
  /\ UNCHANGED <<database, opendkim, zone, maildirs, environment, ops>>

(* -------------------------- provision_domain -------------------------- *)

\* provision_domain: server_ip = await network.get_public_ip(), inside the try
ProvisionDomainResolveIp(w) ==
  /\ At(w, "pd_resolve_ip")
  /\ LET t == tasks[w]
     IN IF ~cf_configured
          THEN Set(w, [t EXCEPT !.pc = "pd_policies"]) /\ UNCHANGED faults
          ELSE \E net \in NetScenarios :
                 LET r == get_public_ip(net)
                 IN /\ ~r.ok => MayFail
                    /\ Charge(~r.ok)
                    /\ IF r.ok
                         THEN Set(w, [t EXCEPT !.pc = "pd_dns",
                                               !.server_ip = r.ip])
                         ELSE Set(w, [t EXCEPT !.pc = "pd_policies",
                                               !.dns = "failed",
                                               !.stage = "dns_attempted"])
  /\ UNCHANGED <<database, opendkim, zone, maildirs, environment, ops>>

\* provision_domain: await cloudflare.create_email_dns_records(...), and the
\* except clause that logs its failure
ProvisionDomainDns(w) ==
  /\ At(w, "pd_dns")
  /\ \E fail_at \in 0..4 :
       LET t == tasks[w]
           r == create_domain_records(zone, t.domain, HOSTNAME, t.server_ip,
                                      t.selector, t.public_key, fail_at)
       IN /\ fail_at # 0 => MayFail
          /\ Charge(fail_at # 0)
          /\ zone' = r.zone
          /\ Set(w, [t EXCEPT !.pc = "pd_policies",
                              !.dns = IF r.ok THEN "created" ELSE "failed",
                              !.stage = "dns_attempted"])
  /\ UNCHANGED <<database, opendkim, maildirs, environment,
                 ops>>

\* provision_domain: server_ip = await network.get_public_ip() and the two
\* policy texts
ProvisionDomainPolicies(w) ==
  /\ At(w, "pd_policies")
  /\ \E net \in NetScenarios :
       LET t == tasks[w]
           r == get_public_ip(net)
       IN /\ ~r.ok => MayFail
          /\ Charge(~r.ok)
          /\ IF r.ok
               THEN Set(w, [t EXCEPT !.pc = "pd_commit", !.server_ip = r.ip,
                                     !.spf_policy = SpfPolicy(r.ip, HOSTNAME)])
               ELSE Set(w, Raise([t EXCEPT !.failure = "ip"], "Exception", "ip"))
  /\ UNCHANGED <<database, opendkim, zone, maildirs, environment, ops>>

\* a row that is active whatever became of the DNS records
StatusActive(dns) == "active"

\* "active" if dns_records_created else "pending"
DomainStatus(dns) == IF dns = "created" THEN "active" ELSE "pending"

\* the row provision_domain builds
DomainRow(t, id) ==
  [id |-> id, workspace_id |-> WORKSPACE, domain |-> t.domain,
   hostname |-> HOSTNAME, dkim_selector |-> t.selector,
   dkim_private_path |-> t.private_key_path,
   dkim_public_key |-> t.public_key, spf_policy |-> t.spf_policy,
   dmarc_policy |-> DmarcPolicy(t.domain),
   status |-> DomainStatus(t.dns)]

\* a table domains without the unique index
NoUniqueIndex(t) == FALSE

\* the unique index on domains.domain
DomainTaken(t) == \E r \in domains : r.domain = t.domain

\* provision_domain: db.add(domain_model); db.commit().  The unique index on
\* domains.domain refuses a second row of the name
ProvisionDomainCommit(w) ==
  /\ At(w, "pd_commit")
  /\ \E committed \in BOOLEAN :
       LET t == tasks[w]
           taken == DomainTaken(t)
       IN /\ (~taken /\ ~committed) => MayFail
          /\ Charge(~taken /\ ~committed)
          /\ IF taken \/ ~committed
               THEN /\ Set(w, Raise([t EXCEPT !.failure = "db"], "Exception",
                                  "persist"))
                    /\ UNCHANGED <<domains, domain_id_seq>>
               ELSE /\ domains' = domains \cup {DomainRow(t, domain_id_seq + 1)}
                    /\ domain_id_seq' = domain_id_seq + 1
                    /\ Set(w, [t EXCEPT !.pc = "pd_event",
                                        !.stage = "persisted",
                                        !.row_id = domain_id_seq + 1])
  /\ UNCHANGED <<mailboxes, events, mailbox_id_seq, opendkim, zone, maildirs,
                 environment, ops>>

\* the event provision_domain builds
DomainCreated(t) ==
  [type |-> "domain.created", workspace_id |-> WORKSPACE,
   payload |-> [domain_id |-> t.row_id, domain |-> t.domain,
                hostname |-> HOSTNAME, dkim_selector |-> t.selector,
                dns_automated |-> t.dns = "created"]]

\* provision_domain: the domain.created event, and the 201 of the route
ProvisionDomainEvent(w) ==
  /\ At(w, "pd_event")
  /\ LET t == tasks[w]
     IN /\ events' = Append(events, DomainCreated(t))
        /\ Set(w, Respond([t EXCEPT !.stage = "event_logged"], 201, ""))
  /\ UNCHANGED <<domains, mailboxes, domain_id_seq, mailbox_id_seq, opendkim,
                 zone, maildirs, environment, ops, faults>>

\* the response is sent; the worker takes the next request
Return(w) ==
  /\ At(w, "done")
  /\ Set(w, IdleTask)
  /\ UNCHANGED <<database, opendkim, zone, maildirs, environment, ops, faults>>

(* ---------------------------- rotate_dkim ----------------------------- *)

\* ids clients name: those of the rows there are, and one of no row
KnownIds(rows) == {r.id : r \in rows}

DomainIds == KnownIds(domains) \cup {domain_id_seq + 1}

RowOf(rows, id) == CHOOSE r \in rows : r.id = id

\* POST /api/domains/{domain_id}/rotate-dkim: the tenant check of the route
RotateDkim(w) ==
  /\ At(w, "idle")
  /\ ops > 0
  /\ ops' = ops - 1
  /\ \E id \in DomainIds, s \in RawSelectors :
       LET t == [IdleTask EXCEPT !.op = "rotate_dkim", !.domain_id = id,
                                 !.selector = s,
                                 !.events_before = Len(events)]
       IN IF id \in KnownIds(domains)
            THEN Set(w, [t EXCEPT !.pc = "rk_load",
                                  !.old = RowOf(domains, id)])
            ELSE Set(w, Respond(t, 404, "not_found"))
  /\ UNCHANGED <<database, opendkim, zone, maildirs, environment, faults>>

\* rotate_dkim_key: the domain is loaded
RotateLoad(w) ==
  /\ At(w, "rk_load")
  /\ LET t == tasks[w]
     IN IF t.domain_id \in KnownIds(domains)
          THEN Set(w, [t EXCEPT !.pc = "dk_genkey",
                                !.domain = RowOf(domains, t.domain_id).domain])
          ELSE Set(w, Raise(t, "ValueError", "not_found"))
  /\ UNCHANGED <<database, opendkim, zone, maildirs, environment, ops, faults>>

\* a rotation that forgets to assign the public key
RotatedRowOldKey(row, t) ==
  [row EXCEPT !.dkim_selector = t.selector,
              !.dkim_private_path = t.private_key_path]

\* a rotation that also takes the status back to pending
RotatedRowPending(row, t) ==
  [row EXCEPT !.dkim_selector = t.selector,
              !.dkim_private_path = t.private_key_path,
              !.dkim_public_key = t.public_key,
              !.status = "pending"]

\* rotate_dkim_key: the three assignments to domain_model
RotatedRow(row, t) ==
  [row EXCEPT !.dkim_selector = t.selector,
              !.dkim_private_path = t.private_key_path,
              !.dkim_public_key = t.public_key]

\* rotate_dkim_key: the three DKIM columns are assigned and committed
RotateCommit(w) ==
  /\ At(w, "rk_commit")
  /\ \E committed \in BOOLEAN :
       LET t == tasks[w]
           there == t.domain_id \in KnownIds(domains)
       IN /\ (there /\ ~committed) => MayFail
          /\ Charge(there /\ ~committed)
          /\ IF ~there \/ ~committed
               THEN /\ Set(w, Raise([t EXCEPT !.failure = "db"], "Exception",
                                  "persist"))
                    /\ UNCHANGED domains
               ELSE /\ domains' =
                         (domains \ {RowOf(domains, t.domain_id)})
                           \cup {RotatedRow(RowOf(domains, t.domain_id), t)}
                    /\ Set(w, [t EXCEPT !.pc = "rk_dns"])
  /\ UNCHANGED <<mailboxes, events, domain_id_seq, mailbox_id_seq, opendkim,
                 zone, maildirs, environment, ops>>

\* a DNS update whose exception is let through
RotateDnsRaised(t) == Raise(t, "Exception", "dns")

\* rotate_dkim_key: the except clause around the DNS update logs a warning
RotateDnsFailed(t) == [t EXCEPT !.pc = "rk_event"]

\* rotate_dkim_key: the DKIM TXT record of the new selector, best effort
RotateDns(w) ==
  /\ At(w, "rk_dns")
  /\ LET t == tasks[w]
     IN IF ~cf_configured
          THEN /\ Set(w, [t EXCEPT !.pc = "rk_event"])
               /\ UNCHANGED <<zone, faults>>
          ELSE \E upserted \in BOOLEAN :
                 /\ ~upserted => MayFail
                 /\ Charge(~upserted)
                 /\ zone' = IF upserted
                              THEN create_or_update_record(zone, "TXT",
                                     DkimName(t.selector, t.domain),
                                     DkimValue(t.public_key))
                              ELSE zone
                 /\ IF upserted
                      THEN Set(w, [t EXCEPT !.pc = "rk_event",
                                            !.dns = "created"])
                      ELSE Set(w, RotateDnsFailed([t EXCEPT !.dns = "failed"]))
  /\ UNCHANGED <<database, opendkim, maildirs, environment, ops>>

\* rotate_dkim_key: the domain.dkim_rotated event, whose old_selector is read
\* from the row just updated, and the 200 of the route
RotateEvent(w) ==
  /\ At(w, "rk_event")
  /\ LET t == tasks[w]
         row == IF t.domain_id \in KnownIds(domains)
                  THEN RowOf(domains, t.domain_id)
                  ELSE [t.old EXCEPT !.dkim_selector = t.selector]
     IN /\ events' = Append(events,
             [type |-> "domain.dkim_rotated", workspace_id |-> row.workspace_id,
              payload |-> [domain_id |-> row.id, domain |-> row.domain,
                           old_selector |-> row.dkim_selector,
                           new_selector |-> t.selector]])
        /\ Set(w, Respond(t, 200, ""))
  /\ UNCHANGED <<domains, mailboxes, domain_id_seq, mailbox_id_seq, opendkim,
                 zone, maildirs, environment, ops, faults>>

(* --------------------------- delete_domain ---------------------------- *)

\* DELETE /api/domains/{domain_id}: the domain is loaded
DeleteDomain(w) ==
  /\ At(w, "idle")
  /\ ops > 0
  /\ ops' = ops - 1
  /\ \E id \in DomainIds :
       LET t == [IdleTask EXCEPT !.op = "delete_domain", !.domain_id = id,
                                 !.events_before = Len(events)]
       IN IF id \in KnownIds(domains)
            THEN Set(w, [t EXCEPT !.pc = "dd_count",
                                  !.old = RowOf(domains, id)])
            ELSE Set(w, Respond(t, 404, "not_found"))
  /\ UNCHANGED <<database, opendkim, zone, maildirs, environment, faults>>

\* delete_domain: the mailboxes of the domain are counted
DeleteDomainCount(w) ==
  /\ At(w, "dd_count")
  /\ LET t == tasks[w]
     IN IF \E m \in mailboxes : m.domain_id = t.domain_id
          THEN Set(w, Respond(t, 400, "has_mailboxes"))
          ELSE Set(w, [t EXCEPT !.pc = "dd_commit"])
  /\ UNCHANGED <<database, opendkim, zone, maildirs, environment, ops, faults>>

\* delete_domain: db.delete(domain_model); db.commit().  The relationship
\* Domain.mailboxes cascades the delete to the mailboxes the domain has by now
DeleteDomainCommit(w) ==
  /\ At(w, "dd_commit")
  /\ \E committed \in BOOLEAN :
       LET t == tasks[w]
           there == t.domain_id \in KnownIds(domains)
       IN /\ (there /\ ~committed) => MayFail
          /\ Charge(there /\ ~committed)
          /\ IF ~there \/ ~committed
               THEN /\ Set(w, Respond([t EXCEPT !.failure = "db"], 500,
                                    "persist"))
                    /\ UNCHANGED <<domains, mailboxes>>
               ELSE /\ domains' = domains \ {RowOf(domains, t.domain_id)}
                    /\ mailboxes' =
                         {m \in mailboxes : m.domain_id # t.domain_id}
                    /\ Set(w, Respond(t, 200, ""))
  /\ UNCHANGED <<events, domain_id_seq, mailbox_id_seq, opendkim, zone,
                 maildirs, environment, ops>>

(* --------------------------- create_mailbox --------------------------- *)

\* auth.hash_password: the hash names the password it was made of
hash_password(password) == <<"$argon2id$", password>>

\* the password a mailbox is created with, and the one it is changed to
PASSWORD == "correct horse"

NEW_PASSWORD == "battery staple"

\* Path("/var/vmail") / domain.domain / local_part
MaildirPath(domain, local_part) ==
  <<"/var/vmail", "/">> \o domain \o <<"/">> \o local_part

\* POST /api/mailboxes: request validation and the domain check of the route
CreateMailbox(w) ==
  /\ At(w, "idle")
  /\ ops > 0
  /\ ops' = ops - 1
  /\ \E id \in DomainIds, l \in RawLocalParts :
       LET vl == validate_local_part(l)
           t == [IdleTask EXCEPT !.op = "create_mailbox", !.domain_id = id,
                                 !.events_before = Len(events)]
       IN IF ~vl.ok
            THEN Set(w, Respond(t, 422, "validation"))
            ELSE IF id \notin KnownIds(domains)
              THEN Set(w, Respond(t, 404, "not_found"))
              ELSE Set(w, [t EXCEPT !.pc = "pm_check",
                                    !.local_part = vl.value])
  /\ UNCHANGED <<database, opendkim, zone, maildirs, environment, faults>>

\* provision_mailbox: the domain is loaded and the mailbox looked up
ProvisionMailboxCheck(w) ==
  /\ At(w, "pm_check")
  /\ LET t == tasks[w]
     IN IF t.domain_id \notin KnownIds(domains)
          THEN Set(w, Raise(t, "ValueError", "not_found"))
          ELSE IF \E m \in mailboxes : /\ m.local_part = t.local_part
                                       /\ m.domain_id = t.domain_id
            THEN Set(w, Raise(t, "ValueError", "duplicate"))
            ELSE Set(w, [t EXCEPT !.pc = "pm_commit",
                                  !.domain = RowOf(domains, t.domain_id).domain])
  /\ UNCHANGED <<database, opendkim, zone, maildirs, environment, ops, faults>>

\* a table mailboxes with the foreign key and no unique constraint
ForeignKeyOnly(t) == t.domain_id \notin KnownIds(domains)

\* the constraints of table mailboxes: the foreign key on domain_id and
\* uq_mailboxes_local_part_domain
MailboxRefused(t) ==
  \/ t.domain_id \notin KnownIds(domains)
  \/ \E m \in mailboxes : /\ m.local_part = t.local_part
                          /\ m.domain_id = t.domain_id

\* provision_mailbox: db.add(mailbox); db.commit().  The foreign key on
\* domain_id and the unique constraint on (local_part, domain_id) may refuse it
ProvisionMailboxCommit(w) ==
  /\ At(w, "pm_commit")
  /\ \E committed \in BOOLEAN :
       LET t == tasks[w]
           refused == MailboxRefused(t)
       IN /\ (~refused /\ ~committed) => MayFail
          /\ Charge(~refused /\ ~committed)
          /\ IF refused \/ ~committed
               THEN /\ Set(w, Raise([t EXCEPT !.failure = "db"], "Exception",
                                  "persist"))
                    /\ UNCHANGED <<mailboxes, mailbox_id_seq>>
               ELSE /\ mailboxes' = mailboxes \cup
                         {[id |-> mailbox_id_seq + 1,
                           workspace_id |-> WORKSPACE,
                           domain_id |-> t.domain_id,
                           local_part |-> t.local_part,
                           password_hash |-> hash_password(PASSWORD),
                           status |-> "active"]}
                    /\ mailbox_id_seq' = mailbox_id_seq + 1
                    /\ Set(w, [t EXCEPT !.pc = "pm_maildir",
                                        !.row_id = mailbox_id_seq + 1])
  /\ UNCHANGED <<domains, events, domain_id_seq, opendkim, zone, maildirs,
                 environment, ops>>

\* an except clause that raises and leaves the row where it is
KeepMailbox(rows, id) == rows

\* provision_mailbox: db.delete(mailbox); db.commit() of the except clause
RollbackMailbox(rows, id) == {m \in rows : m.id # id}

\* provision_mailbox: create_maildir, and the except clause that deletes the
\* row again.  made is how far create_maildir gets: "mkdir", "chown" and
\* "chmod" name the call that fails
ProvisionMailboxMaildir(w) ==
  /\ At(w, "pm_maildir")
  /\ \E made \in {"ok", "mkdir", "chown", "chmod"} :
       LET t == tasks[w]
       IN /\ made # "ok" => MayFail
          /\ Charge(made # "ok")
          /\ maildirs' = IF made = "mkdir"
                           THEN maildirs
                           ELSE maildirs \cup {MaildirPath(t.domain, t.local_part)}
          /\ IF made = "ok"
               THEN /\ Set(w, [t EXCEPT !.pc = "pm_event"])
                    /\ UNCHANGED mailboxes
               ELSE /\ mailboxes' = RollbackMailbox(mailboxes, t.row_id)
                    /\ Set(w, Raise([t EXCEPT !.failure = "storage"],
                                    "Exception", "storage"))
  /\ UNCHANGED <<domains, events, domain_id_seq, mailbox_id_seq, opendkim,
                 zone, environment, ops>>

\* provision_mailbox: the mailbox.created event, and the 201 of the route
ProvisionMailboxEvent(w) ==
  /\ At(w, "pm_event")
  /\ LET t == tasks[w]
     IN /\ events' = Append(events,
             [type |-> "mailbox.created", workspace_id |-> WORKSPACE,
              payload |-> [mailbox_id |-> t.row_id,
                           email |-> t.local_part \o <<"@">> \o t.domain]])
        /\ Set(w, Respond(t, 201, ""))
  /\ UNCHANGED <<domains, mailboxes, domain_id_seq, mailbox_id_seq, opendkim,
                 zone, maildirs, environment, ops, faults>>

(* ----------------------- update_mailbox_password ---------------------- *)

MailboxIds == KnownIds(mailboxes) \cup {mailbox_id_seq + 1}

\* PUT /api/mailboxes/{id}/password: the mailbox check of the route
UpdatePassword(w) ==
  /\ At(w, "idle")
  /\ ops > 0
  /\ ops' = ops - 1
  /\ \E id \in MailboxIds :
       LET t == [IdleTask EXCEPT !.op = "update_password", !.row_id = id,
                                 !.events_before = Len(events)]
       IN IF id \in KnownIds(mailboxes)
            THEN Set(w, [t EXCEPT !.pc = "up_load"])
            ELSE Set(w, Respond(t, 404, "not_found"))
  /\ UNCHANGED <<database, opendkim, zone, maildirs, environment, faults>>

\* update_mailbox_password: the mailbox and its domain are loaded
UpdatePasswordLoad(w) ==
  /\ At(w, "up_load")
  /\ LET t == tasks[w]
     IN IF t.row_id \in KnownIds(mailboxes)
          THEN LET m == RowOf(mailboxes, t.row_id)
               IN Set(w, [t EXCEPT !.pc = "up_commit",
                                   !.domain_id = m.domain_id,
                                   !.local_part = m.local_part,
                                   !.domain = RowOf(domains, m.domain_id).domain])
          ELSE Set(w, Raise(t, "ValueError", "not_found"))
  /\ UNCHANGED <<database, opendkim, zone, maildirs, environment, ops, faults>>

\* update_mailbox_password: the new hash is assigned and committed.  A row
\* that is gone by now makes the UPDATE match nothing, which raises
UpdatePasswordCommit(w) ==
  /\ At(w, "up_commit")
  /\ \E committed \in BOOLEAN :
       LET t == tasks[w]
           there == t.row_id \in KnownIds(mailboxes)
       IN /\ (there /\ ~committed) => MayFail
          /\ Charge(there /\ ~committed)
          /\ IF ~there \/ ~committed
               THEN /\ Set(w, Raise([t EXCEPT !.failure = "db"], "Exception",
                                    "persist"))
                    /\ UNCHANGED mailboxes
               ELSE /\ mailboxes' =
                         (mailboxes \ {RowOf(mailboxes, t.row_id)})
                           \cup {[RowOf(mailboxes, t.row_id) EXCEPT
                                    !.password_hash =
                                       hash_password(NEW_PASSWORD)]}
                    /\ Set(w, [t EXCEPT !.pc = "up_event"])
  /\ UNCHANGED <<domains, events, domain_id_seq, mailbox_id_seq, opendkim,
                 zone, maildirs, environment, ops>>

\* update_mailbox_password: the mailbox.password_changed event, and the 200
UpdatePasswordEvent(w) ==
  /\ At(w, "up_event")
  /\ LET t == tasks[w]
     IN /\ events' = Append(events,
             [type |-> "mailbox.password_changed", workspace_id |-> WORKSPACE,
              payload |-> [mailbox_id |-> t.row_id,
                           email |-> t.local_part \o <<"@">> \o t.domain]])
        /\ Set(w, Respond(t, 200, ""))
  /\ UNCHANGED <<domains, mailboxes, domain_id_seq, mailbox_id_seq, opendkim,
                 zone, maildirs, environment, ops, faults>>

(* --------------------------- delete_mailbox --------------------------- *)

\* DELETE /api/mailboxes/{id}: the mailbox check of the route
DeleteMailbox(w) ==
  /\ At(w, "idle")
  /\ ops > 0
  /\ ops' = ops - 1
  /\ \E id \in MailboxIds :
       LET t == [IdleTask EXCEPT !.op = "delete_mailbox", !.row_id = id,
                                 !.events_before = Len(events)]
       IN IF id \in KnownIds(mailboxes)
            THEN Set(w, [t EXCEPT !.pc = "dm_load"])
            ELSE Set(w, Respond(t, 404, "not_found"))
  /\ UNCHANGED <<database, opendkim, zone, maildirs, environment, faults>>

\* delete_mailbox: the mailbox and its domain are loaded
DeleteMailboxLoad(w) ==
  /\ At(w, "dm_load")
  /\ LET t == tasks[w]
     IN IF t.row_id \in KnownIds(mailboxes)
          THEN LET m == RowOf(mailboxes, t.row_id)
               IN Set(w, [t EXCEPT !.pc = "dm_remove",
                                   !.domain_id = m.domain_id,
                                   !.local_part = m.local_part,
                                   !.domain = RowOf(domains, m.domain_id).domain])
          ELSE Set(w, Raise(t, "ValueError", "not_found"))
  /\ UNCHANGED <<database, opendkim, zone, maildirs, environment, ops, faults>>

\* a failed rm -rf that ends the request
RemoveRaised(t) == Raise(t, "Exception", "storage")

\* delete_mailbox: the except clause around rm -rf logs the error
RemoveFailed(t) == [t EXCEPT !.pc = "dm_commit"]

\* delete_mailbox: rm -rf of the mailbox directory, if there is one
DeleteMailboxRemove(w) ==
  /\ At(w, "dm_remove")
  /\ LET t == tasks[w]
         path == MaildirPath(t.domain, t.local_part)
     IN IF path \notin maildirs
          THEN /\ Set(w, [t EXCEPT !.pc = "dm_commit"])
               /\ UNCHANGED <<maildirs, faults>>
          ELSE \E removed \in BOOLEAN :
                 /\ ~removed => MayFail
                 /\ Charge(~removed)
                 /\ maildirs' = IF removed THEN maildirs \ {path} ELSE maildirs
                 /\ IF removed
                      THEN Set(w, [t EXCEPT !.pc = "dm_commit",
                                            !.cleanup = "removed"])
                      ELSE Set(w, RemoveFailed([t EXCEPT !.cleanup = "failed"]))
  /\ UNCHANGED <<database, opendkim, zone, environment, ops>>

\* delete_mailbox: db.delete(mailbox), the mailbox.deleted event and one
\* commit for both, and the 200 of the route
DeleteMailboxCommit(w) ==
  /\ At(w, "dm_commit")
  /\ \E committed \in BOOLEAN :
       LET t == tasks[w]
       IN /\ ~committed => MayFail
          /\ Charge(~committed)
          /\ IF ~committed
               THEN /\ Set(w, Raise([t EXCEPT !.failure = "db"], "Exception",
                                    "persist"))
                    /\ UNCHANGED <<mailboxes, events>>
               ELSE /\ mailboxes' = {m \in mailboxes : m.id # t.row_id}
                    /\ events' = Append(events,
                         [type |-> "mailbox.deleted",
                          workspace_id |-> WORKSPACE,
                          payload |-> [email |-> t.local_part \o <<"@">>
                                                   \o t.domain]])
                    /\ Set(w, Respond(t, 200, ""))
  /\ UNCHANGED <<domains, domain_id_seq, mailbox_id_seq, opendkim, zone,
                 maildirs, environment, ops>>

(* --------------------------- specification ---------------------------- *)

Step(w) ==
  \/ CreateDomain(w)
  \/ ProvisionDomainCheck(w)
  \/ DkimGenerateKey(w)
  \/ UpdateReadKeyTable(w)
  \/ UpdateReadSigningTable(w)
  \/ UpdateWriteKeyTable(w)
  \/ UpdateWriteSigningTable(w)
  \/ UpdateReload(w)
  \/ ProvisionDomainResolveIp(w)
  \/ ProvisionDomainDns(w)
  \/ ProvisionDomainPolicies(w)
  \/ ProvisionDomainCommit(w)
  \/ ProvisionDomainEvent(w)
  \/ RotateDkim(w)
  \/ RotateLoad(w)
  \/ RotateCommit(w)
  \/ RotateDns(w)
  \/ RotateEvent(w)
  \/ DeleteDomain(w)
  \/ DeleteDomainCount(w)
  \/ DeleteDomainCommit(w)
  \/ CreateMailbox(w)
  \/ ProvisionMailboxCheck(w)
  \/ ProvisionMailboxCommit(w)
  \/ ProvisionMailboxMaildir(w)
  \/ ProvisionMailboxEvent(w)
  \/ UpdatePassword(w)
  \/ UpdatePasswordLoad(w)
  \/ UpdatePasswordCommit(w)
  \/ UpdatePasswordEvent(w)
  \/ DeleteMailbox(w)
  \/ DeleteMailboxLoad(w)
  \/ DeleteMailboxRemove(w)
  \/ DeleteMailboxCommit(w)
  \/ Return(w)

\* the installation before its first request; the two OpenDKIM tables are
\* empty files
Init ==
  /\ domains = {}
  /\ mailboxes = {}
  /\ events = <<>>
  /\ domain_id_seq = 0
  /\ mailbox_id_seq = 0
  /\ keyfiles = <<>>
  /\ KeyTable = <<>>
  /\ SigningTable = <<>>
  /\ zone = {}
  /\ maildirs = {}
  /\ tasks = [w \in Workers |-> IdleTask]
  /\ cf_configured \in BOOLEAN
  /\ client_domains = RawDomains
  /\ probe = NoProbe
  /\ ops = MaxOps
  /\ faults = MaxFaults

\* the locals of the request that created b.co with selector m, every step of
\* it having succeeded
FirstDomain ==
  LET d == <<"b",".","c","o">>
      k == generate_dkim_key(<<>>, d, <<"m">>, "ok", "ok")
  IN [IdleTask EXCEPT !.op = "create_domain", !.domain = d,
                      !.selector = <<"m">>,
                      !.private_key_path = k.private_key_path,
                      !.public_key = k.public_key,
                      !.server_ip = ADDRESS,
                      !.spf_policy = SpfPolicy(ADDRESS, HOSTNAME),
                      !.dns = "created", !.row_id = 1]

\* the installation once that request has been answered, which is the state
\* ParStart names, with one request fewer to come and no failure
InitPar ==
  LET t == FirstDomain
  IN /\ domains = {DomainRow(t, 1)}
     /\ mailboxes = {}
     /\ events = <<DomainCreated(t)>>
     /\ domain_id_seq = 1
     /\ mailbox_id_seq = 0
     /\ keyfiles = generate_dkim_key(<<>>, t.domain, t.selector, "ok", "ok").files
     /\ KeyTable = NewKeyTable(<<>>, t.domain, t.selector, t.private_key_path)
     /\ SigningTable = NewSigningTable(<<>>, t.domain, t.selector)
     /\ zone = create_domain_records({}, t.domain, HOSTNAME, t.server_ip,
                                     t.selector, t.public_key, 0).zone
     /\ maildirs = {}
     /\ tasks = [w \in Workers |-> IdleTask]
     /\ cf_configured = TRUE
     /\ client_domains = ParDomains
     /\ probe = NoProbe
     /\ ops = MaxOps - 1
     /\ faults = MaxFaults - 1

\* the state InitPar starts from, as the sequential specification reaches it
ParStart ==
  LET t == FirstDomain
  IN /\ domains = {DomainRow(t, 1)}
     /\ mailboxes = {}
     /\ events = <<DomainCreated(t)>>
     /\ domain_id_seq = 1
     /\ keyfiles = generate_dkim_key(<<>>, t.domain, t.selector, "ok", "ok").files
     /\ KeyTable = NewKeyTable(<<>>, t.domain, t.selector, t.private_key_path)
     /\ SigningTable = NewSigningTable(<<>>, t.domain, t.selector)
     /\ zone = create_domain_records({}, t.domain, HOSTNAME, t.server_ip,
                                     t.selector, t.public_key, 0).zone
     /\ maildirs = {}
     /\ tasks = [w \in Workers |-> IdleTask]
     /\ cf_configured = TRUE
     /\ ops = MaxOps - 1
     /\ faults = MaxFaults

\* one request at a time
Next == Step("w1")

Spec == Init /\ [][Next]_vars

\* the steps that wait for a child process with no timeout: opendkim-genkey
\* and chown, systemctl reload, chown and chmod of a mailbox directory, rm -rf
Unbounded == {"dk_genkey", "tbl_reload", "pm_maildir", "dm_remove"}

\* subprocess.run with no timeout, and a child process that never exits: the
\* call does not return.  The HTTP calls carry timeouts, and a stalled one is
\* the failure of that call
Stall(w) ==
  /\ tasks[w].pc \in Unbounded
  /\ tasks[w].pc = "dm_remove" =>
       MaildirPath(tasks[w].domain, tasks[w].local_part) \in maildirs
  /\ MayFail
  /\ Charge(TRUE)
  /\ Set(w, [tasks[w] EXCEPT !.pc = "stalled"])
  /\ UNCHANGED <<database, opendkim, zone, maildirs, environment, ops>>

\* one request at a time, by a server that runs every handler that can run
NextLive == Step("w1") \/ Stall("w1")

SpecLive == Init /\ [][NextLive]_vars /\ WF_vars(Step("w1"))

\* two workers serve requests side by side
NextPar == \E w \in Workers : Step(w)

SpecPar == InitPar /\ [][NextPar]_vars

(* ------------------- the utilities called on their own ---------------- *)

\* names and contents a caller of the DNS client upserts
DnsNames == { <<"b",".","c","o">>, <<"_dmarc", ".", "b",".","c","o">> }

DnsContents == { <<"v=spf1 -all">>, SpfPolicy(ADDRESS, HOSTNAME) }

\* CloudflareAPI.create_or_update_record called on its own; a request the
\* provider does not answer with success raises and leaves the zone alone
CallUpsert ==
  /\ ops > 0
  /\ ops' = ops - 1
  /\ \E record_type \in {"MX", "TXT"}, name \in DnsNames,
        content \in DnsContents, answered \in BOOLEAN :
       /\ ~answered => MayFail
       /\ Charge(~answered)
       /\ zone' = IF answered
                    THEN create_or_update_record(zone, record_type, name,
                                                 content)
                    ELSE zone
       /\ probe' = Called("create_or_update_record",
                          <<record_type, name, content>>, zone, answered, <<>>)
  /\ UNCHANGED <<database, opendkim, maildirs, cf_configured, client_domains,
                 tasks>>

\* CloudflareAPI.create_domain_records called on its own for b.co
CallCreateDomainRecords ==
  /\ ops > 0
  /\ ops' = ops - 1
  /\ \E dkim_selector \in RawSelectors, fail_at \in 0..4 :
       LET domain == <<"b",".","c","o">>
           r == create_domain_records(zone, domain, HOSTNAME, ADDRESS,
                                      dkim_selector, <<Material(1)>>, fail_at)
       IN /\ fail_at # 0 => MayFail
          /\ Charge(fail_at # 0)
          /\ zone' = r.zone
          /\ probe' = Called("create_domain_records",
                             <<domain, dkim_selector, fail_at>>, zone, r.ok,
                             <<>>)
  /\ UNCHANGED <<database, opendkim, maildirs, cf_configured, client_domains,
                 tasks>>

\* the DNS provider with an empty zone, and a caller of the client
InitDns ==
  /\ domains = {}
  /\ mailboxes = {}
  /\ events = <<>>
  /\ domain_id_seq = 0
  /\ mailbox_id_seq = 0
  /\ keyfiles = <<>>
  /\ KeyTable = <<>>
  /\ SigningTable = <<>>
  /\ zone = {}
  /\ maildirs = {}
  /\ tasks = [w \in Workers |-> IdleTask]
  /\ cf_configured = TRUE
  /\ client_domains = ParDomains
  /\ probe = NoProbe
  /\ ops = MaxOps
  /\ faults = MaxFaults

NextDns == CallUpsert \/ CallCreateDomainRecords

SpecDns == InitDns /\ [][NextDns]_vars

\* what a lookup service may answer: no answer or an error status, the
\* address with or without a newline, or a 200 whose body is the IPv6 address
\* of a host that reached the service over IPv6
IPV6_ADDRESS == <<"2001:db8::1">>

HttpAnswers ==
  { HttpError, HttpOk(ADDRESS \o <<"\n">>), HttpOk(OTHER_ADDRESS),
    HttpOk(IPV6_ADDRESS \o <<"\n">>) }

NetInputs ==
  [services : HttpAnswers \X HttpAnswers \X HttpAnswers,
   socket : {HttpOk(LOCAL_ADDRESS), HttpError}]

\* get_public_ip called on its own
CallGetPublicIp ==
  /\ ops > 0
  /\ ops' = ops - 1
  /\ \E net \in NetInputs :
       LET r == get_public_ip(net)
       IN probe' = Called("get_public_ip", net, {}, r.ok, r.ip)
  /\ UNCHANGED <<database, opendkim, zone, maildirs, cf_configured,
                 client_domains, tasks, faults>>

InitIp == InitDns

NextIp == CallGetPublicIp

SpecIp == InitIp /\ [][NextIp]_vars

(* ----------------------------- properties ----------------------------- *)

\* the requests that have been answered and not yet handed back
Answered(op) == {w \in Workers : tasks[w].pc = "done" /\ tasks[w].op = op}

\* the positions in the event log of the events of a type about a row
EventsAbout(type, key, id) ==
  {i \in 1..Len(events) : /\ events[i].type = type
                          /\ events[i].payload[key] = id}

\* C1: when create_maildir fails after the mailbox row was committed, the
\* request ends with an error, no mailbox row of that id is left, and no
\* mailbox.created event was written for it
C1_MailboxCompensated ==
  \A w \in Answered("create_mailbox") :
    LET t == tasks[w]
    IN (t.row_id # 0 /\ t.failure = "storage") =>
         /\ t.status_code >= 400
         /\ ~\E m \in mailboxes : m.id = t.row_id
         /\ ~\E m \in mailboxes : /\ m.local_part = t.local_part
                                  /\ m.domain_id = t.domain_id
         /\ EventsAbout("mailbox.created", "mailbox_id", t.row_id) = {}
         /\ Len(events) = t.events_before

\* a mailbox request whose row was committed and whose maildir then failed
C1_Witness ==
  \E w \in Answered("create_mailbox") :
    /\ tasks[w].row_id # 0
    /\ tasks[w].failure = "storage"
    /\ mailbox_id_seq >= tasks[w].row_id

\* C2: once the key is in place, a DNS step that fails or is not taken does
\* not fail provision_domain: barring a failure of another dependency the
\* request ends 201, the row is "active" exactly if the records were created
\* and "pending" otherwise, the row carries the public key, and exactly one
\* domain.created event is written whose dns_automated flag says the same
C2_DnsDegrades ==
  \A w \in Answered("create_domain") :
    LET t == tasks[w]
    IN (t.public_key # NoMatch /\ t.failure = "none") =>
         /\ t.status_code = 201
         /\ \E r \in domains :
              /\ r.id = t.row_id
              /\ r.domain = t.domain
              /\ r.status = (IF t.dns = "created" THEN "active" ELSE "pending")
              /\ r.dkim_public_key # NoMatch
              /\ IsMaterial(r.dkim_public_key[1])
         /\ Cardinality(EventsAbout("domain.created", "domain_id", t.row_id)) = 1
         /\ \A i \in EventsAbout("domain.created", "domain_id", t.row_id) :
              events[i].payload.dns_automated = (t.dns = "created")

\* a domain request whose DNS step failed and that was answered 201
C2_Witness ==
  \E w \in Answered("create_domain") :
    /\ tasks[w].dns = "failed"
    /\ tasks[w].status_code = 201
    /\ \E r \in domains : r.id = tasks[w].row_id /\ r.status = "pending"

\* C3: when key generation, the extraction of the public key or the reload
\* of the signing daemon fails, provision_domain has written no domain row
\* and no event, and rotate_dkim_key has left the row as it was, selector,
\* key path and public key, and written no event
C3_MandatoryFailureWritesNothing ==
  /\ \A w \in Answered("create_domain") :
       LET t == tasks[w]
       IN t.failure \in {"dkim", "reload"} =>
            /\ t.status_code >= 400
            /\ ~\E r \in domains : r.domain = t.domain
            /\ Len(events) = t.events_before
  /\ \A w \in Answered("rotate_dkim") :
       LET t == tasks[w]
       IN t.failure \in {"dkim", "reload"} =>
            /\ t.status_code >= 400
            /\ t.old \in domains
            /\ Len(events) = t.events_before

\* a rotation that failed in the key step, asked to move to another selector
C3_Witness ==
  \E w \in Answered("rotate_dkim") :
    /\ tasks[w].failure \in {"dkim", "reload"}
    /\ tasks[w].selector # tasks[w].old.dkim_selector

\* the durable state outside the request itself
durable == <<database, opendkim, zone, maildirs>>

\* a request to create a domain, admitted and not yet looked up, whose name,
\* whatever its case, a row has
Duplicate(t) ==
  /\ t.op = "create_domain"
  /\ t.pc = "pd_check"
  /\ \E r \in domains : Lower(r.domain) = Lower(t.raw_domain)

\* C4: a request to create a domain that exists already, compared without
\* regard to case, is answered 400 in its next step, and neither that step
\* nor the one that admitted the request changes a key file, a signing
\* table, a DNS record, a row or the event log
C4_DuplicateRejected ==
  [][\A w \in Workers :
       /\ Duplicate(tasks[w]) =>
            /\ tasks'[w].pc = "done"
            /\ tasks'[w].status_code = 400
            /\ tasks'[w].detail = "duplicate"
            /\ UNCHANGED durable
       /\ (tasks[w].pc = "idle" /\ Duplicate(tasks'[w])) => UNCHANGED durable]_vars

\* a request naming an existing domain in another case was answered 400
C4_Witness ==
  \E w \in Answered("create_domain") :
    /\ tasks[w].status_code = 400
    /\ tasks[w].raw_domain # tasks[w].domain
    /\ \E r \in domains : r.domain = tasks[w].domain

\* C5: a provision_domain call that fails was aborted from the stage started
\* or the stage key_ready, never after the DNS step was attempted
C5_AbortOnlyBeforeDns ==
  \A w \in Workers :
    (tasks[w].op = "create_domain" /\ tasks[w].stage = "aborted") =>
      tasks[w].aborted_from \in {"started", "key_ready"}

\* C6: a step that removes a domain row removes no mailbox row and leaves no
\* mailbox row that references the domain, whatever delete_domain and
\* provision_mailbox of two workers do side by side
C6_DomainDeleteSparesMailboxes ==
  [][\A r \in domains :
       r.id \notin KnownIds(domains') =>
         /\ mailboxes' = mailboxes
         /\ ~\E m \in mailboxes' : m.domain_id = r.id]_vars

\* C7: after a rotation that succeeded and named a selector other than the
\* current one, the row has the new selector, its public key differs from
\* the one before and is the key of the file stored for the domain and the
\* new selector, and the key file of the selector before is still there
C7_RotationInstallsNewKey ==
  \A w \in Answered("rotate_dkim") :
    LET t == tasks[w]
        path == PrivateKeyPath(t.domain, t.selector)
    IN (t.status_code = 200 /\ t.selector # t.old.dkim_selector) =>
         /\ t.domain_id \in KnownIds(domains)
         /\ RowOf(domains, t.domain_id).dkim_selector = t.selector
         /\ RowOf(domains, t.domain_id).dkim_public_key # t.old.dkim_public_key
         /\ path \in DOMAIN keyfiles
         /\ RowOf(domains, t.domain_id).dkim_public_key
              = <<Material(keyfiles[path].serial)>>
         /\ t.old.dkim_private_path \in DOMAIN keyfiles
         /\ t.old.dkim_private_path # path

\* a rotation to another selector was answered 200
C7_Witness ==
  \E w \in Answered("rotate_dkim") :
    /\ tasks[w].status_code = 200
    /\ tasks[w].selector # tasks[w].old.dkim_selector
    /\ tasks[w].old.dkim_public_key # NoMatch

\* C8: a rotation whose DNS update fails is still answered 200, the row has
\* the selector, key path and public key of the new key, and the
\* domain.dkim_rotated event is the one event the request appended
C8_RotationSurvivesDns ==
  \A w \in Answered("rotate_dkim") :
    LET t == tasks[w]
    IN t.dns = "failed" =>
         /\ t.status_code = 200
         /\ t.domain_id \in KnownIds(domains)
         /\ RowOf(domains, t.domain_id).dkim_selector = t.selector
         /\ RowOf(domains, t.domain_id).dkim_private_path
              = PrivateKeyPath(t.domain, t.selector)
         /\ RowOf(domains, t.domain_id).dkim_public_key = t.public_key
         /\ t.public_key # NoMatch
         /\ Len(events) = t.events_before + 1
         /\ events[Len(events)].type = "domain.dkim_rotated"
         /\ events[Len(events)].payload.domain_id = t.domain_id
         /\ events[Len(events)].payload.new_selector = t.selector

\* a rotation to another selector whose DNS update failed
C8_Witness ==
  \E w \in Answered("rotate_dkim") :
    /\ tasks[w].dns = "failed"
    /\ tasks[w].selector # tasks[w].old.dkim_selector

\* a table line as the signing daemon reads it: the name before the blank
\* and the value after it, without the newline
LineFields(line) == Split(SubSeq(line, 1, Len(line) - 1), " ")

\* the domain and the selector of a KeyTable line, whose value is
\* domain:selector:path
KeyLineOf(line) ==
  LET v == Split(LineFields(line)[2], ":")
  IN [domain |-> v[1], selector |-> v[2]]

\* the domain and the selector of a SigningTable line, whose name is *@domain
\* and whose value is selector._domainkey.domain
SigningLineOf(line) ==
  LET f == LineFields(line)
      k == CHOOSE i \in 1..Len(f[2]) : f[2][i] = "_domainkey"
  IN [domain |-> SubSeq(f[1], 3, Len(f[1])),
      selector |-> SubSeq(f[2], 1, k - 2)]

KeyLines(d) ==
  {i \in 1..Len(KeyTable) : KeyLineOf(KeyTable[i]).domain = d}

SigningLines(d) ==
  {i \in 1..Len(SigningTable) : SigningLineOf(SigningTable[i]).domain = d}

TableDomains ==
  {KeyLineOf(KeyTable[i]).domain : i \in 1..Len(KeyTable)}
    \cup {SigningLineOf(SigningTable[i]).domain : i \in 1..Len(SigningTable)}

\* no worker is between the write of KeyTable and the write of SigningTable
TablesSettled == \A w \in Workers : tasks[w].pc # "tbl_write_signing"

\* C9: whatever requests were served one after the other, KeyTable has at
\* most one line of a domain and SigningTable has at most one, and once an
\* update has written both files the two lines name the same selector
C9_OneEntryPerDomain ==
  \A d \in TableDomains :
    /\ Cardinality(KeyLines(d)) <= 1
    /\ Cardinality(SigningLines(d)) <= 1
    /\ TablesSettled =>
         \A i \in KeyLines(d), j \in SigningLines(d) :
           KeyLineOf(KeyTable[i]).selector
             = SigningLineOf(SigningTable[j]).selector

\* a rotation to another selector has rewritten the tables of a domain that
\* had lines in them
C9_Witness ==
  \E w \in Answered("rotate_dkim") :
    /\ tasks[w].status_code = 200
    /\ tasks[w].selector # tasks[w].old.dkim_selector
    /\ \E i \in KeyLines(tasks[w].domain) :
         KeyLineOf(KeyTable[i]).selector = tasks[w].selector
    /\ SigningLines(tasks[w].domain) # {}

\* C10: when two requests for one domain have both been through key
\* generation and the update of the tables, each table holds exactly one
\* line of the domain and the two lines are the ones a single one of the two
\* requests wrote
C10_TablesWrittenWhole ==
  LET a == tasks["w1"]
      b == tasks["w2"]
  IN (/\ a.pc = "done" /\ b.pc = "done"
      /\ {a.op, b.op} \subseteq {"create_domain", "rotate_dkim"}
      /\ a.public_key # NoMatch /\ b.public_key # NoMatch
      /\ a.domain = b.domain) =>
       /\ Cardinality(KeyLines(a.domain)) = 1
       /\ Cardinality(SigningLines(a.domain)) = 1
       /\ \E t \in {a, b} :
            /\ \E i \in KeyLines(a.domain) :
                 KeyTable[i] = KeyEntry(t.domain, t.selector,
                                        t.private_key_path)
            /\ \E j \in SigningLines(a.domain) :
                 SigningTable[j] = SigningEntry(t.domain, t.selector)

\* the records the zone holds of a type and name
RecordsOf(records, record_type, name) ==
  {r \in records : r.type = record_type /\ r.name = name}

\* C13: an upsert the provider answers leaves exactly one record of the type
\* and name, holding the content; it adds one record if there was none and
\* otherwise changes the one there is in place, so that a second upsert with
\* the arguments of the first leaves the zone as the first left it
C13_UpsertIdempotent ==
  (probe.fn = "create_or_update_record" /\ probe.ok) =>
    LET now == RecordsOf(zone, probe.args[1], probe.args[2])
        was == RecordsOf(probe.before, probe.args[1], probe.args[2])
    IN /\ Cardinality(now) = 1
       /\ \A r \in now : r.content = probe.args[3]
       /\ zone \ now = probe.before \ was
       /\ was = {} => KnownIds(zone) = KnownIds(probe.before)
                                         \cup {Cardinality(probe.before) + 1}
       /\ was # {} => KnownIds(now) = KnownIds(was)
       /\ (/\ probe.prev.fn = "create_or_update_record"
           /\ probe.prev.ok
           /\ probe.prev.args = probe.args) => zone = probe.before

\* two upserts with the same arguments, one after the other, both answered
C13_Witness ==
  /\ probe.fn = "create_or_update_record"
  /\ probe.ok
  /\ probe.prev.fn = "create_or_update_record"
  /\ probe.prev.ok
  /\ probe.prev.args = probe.args
  /\ Cardinality(zone) >= 1

\* the type and name of the four records of a domain, in the order MX, SPF,
\* DKIM, DMARC
RecordKeys(domain, dkim_selector) ==
  << <<"MX", domain>>, <<"TXT", domain>>,
     <<"TXT", dkim_selector \o <<".", "_domainkey", ".">> \o domain>>,
     <<"TXT", <<"_dmarc", ".">> \o domain>> >>

\* C14: create_domain_records whose upsert number N fails has applied the
\* upserts before N in the order MX, SPF, DKIM, DMARC, has left the records
\* of the upserts from N on and every other record as they were, and has
\* raised; with no failure all four records are there and it returns
C14_UpsertsInOrder ==
  probe.fn = "create_domain_records" =>
    LET keys == RecordKeys(probe.args[1], probe.args[2])
        fail_at == probe.args[3]
        applied == IF fail_at = 0 THEN 4 ELSE fail_at - 1
        contents == <<HOSTNAME, SpfPolicy(ADDRESS, HOSTNAME),
                      <<"v=DKIM1; k=rsa; p=", Material(1)>>,
                      DmarcPolicy(probe.args[1])>>
    IN /\ probe.ok = (fail_at = 0)
       /\ \A i \in 1..applied :
            /\ Cardinality(RecordsOf(zone, keys[i][1], keys[i][2])) = 1
            /\ \A r \in RecordsOf(zone, keys[i][1], keys[i][2]) :
                 r.content = contents[i]
       /\ \A i \in (applied + 1)..4 :
            RecordsOf(zone, keys[i][1], keys[i][2])
              = RecordsOf(probe.before, keys[i][1], keys[i][2])
       /\ \A r \in zone :
            (\A i \in 1..4 : <<r.type, r.name>> # keys[i]) => r \in probe.before
       /\ \A r \in probe.before :
            (\A i \in 1..4 : <<r.type, r.name>> # keys[i]) => r \in zone

\* create_domain_records failed at its third upsert, with two applied
C14_Witness ==
  /\ probe.fn = "create_domain_records"
  /\ probe.args[3] = 3
  /\ ~probe.ok
  /\ RecordsOf(zone, "TXT", probe.args[1]) # {}
  /\ RecordsOf(zone, "TXT", <<"_dmarc", ".">> \o probe.args[1]) = {}

\* C15: a provision_mailbox call that is refused, for a missing domain, for a
\* mailbox that exists or by the constraints of the table, changes no row,
\* no directory and no event, and whatever the workers do there is never
\* more than one mailbox row of a local part and domain
C15_MailboxUnique ==
  [][/\ \A w \in Workers :
          (/\ tasks'[w].op = "create_mailbox"
           /\ tasks[w].pc # "done"
           /\ tasks'[w].pc = "done"
           /\ \/ tasks'[w].detail \in {"not_found", "duplicate"}
              \/ tasks'[w].failure = "db") =>
            /\ tasks'[w].status_code >= 400
            /\ UNCHANGED durable
     /\ \A m \in mailboxes', n \in mailboxes' :
          (m.local_part = n.local_part /\ m.domain_id = n.domain_id) => m = n
    ]_vars

\* of two requests for one mailbox served side by side, one has its row and
\* the other was refused by the table after it had passed the lookup
C15_Witness ==
  \E w \in Answered("create_mailbox") :
    /\ tasks[w].failure = "db"
    /\ \E m \in mailboxes : /\ m.local_part = tasks[w].local_part
                            /\ m.domain_id = tasks[w].domain_id

\* C16: a delete_mailbox whose removal of the mailbox directory failed, and
\* whose commit did not fail, is answered 200, has deleted the mailbox row
\* and has appended one mailbox.deleted event of that mailbox
C16_CleanupBestEffort ==
  \A w \in Answered("delete_mailbox") :
    LET t == tasks[w]
    IN (t.cleanup = "failed" /\ t.failure = "none") =>
         /\ t.status_code = 200
         /\ t.row_id \notin KnownIds(mailboxes)
         /\ Len(events) >= t.events_before + 1
         /\ events[t.events_before + 1].type = "mailbox.deleted"
         /\ events[t.events_before + 1].payload.email =
              t.local_part \o <<"@">> \o t.domain

\* a mailbox was deleted although rm -rf failed: its directory is still there
C16_Witness ==
  \E w \in Answered("delete_mailbox") :
    /\ tasks[w].cleanup = "failed"
    /\ tasks[w].status_code = 200
    /\ MaildirPath(tasks[w].domain, tasks[w].local_part) \in maildirs

\* the operations that change rows, and the event type that tells of each
Changing ==
  [create_domain |-> "domain.created", rotate_dkim |-> "domain.dkim_rotated",
   delete_domain |-> "domain.deleted", create_mailbox |-> "mailbox.created",
   update_password |-> "mailbox.password_changed",
   delete_mailbox |-> "mailbox.deleted"]

\* the request of worker w has added an event of its operation to the log
Audited(w) ==
  /\ Len(events) >= tasks[w].events_before + 1
  /\ events[tasks[w].events_before + 1].type = Changing[tasks[w].op]

\* C17: every request that changes rows and is answered with success has
\* appended an event of its operation to the log (violated: delete_domain
\* deletes the row and writes no event)
C17_EveryChangeAudited ==
  \A w \in Workers :
    (/\ tasks[w].pc = "done"
     /\ tasks[w].op \in DOMAIN Changing
     /\ tasks[w].status_code \in 200..299) => Audited(w)

\* C18: a request that met a duplicate or a missing row is answered 4xx, one
\* ended by the failure of a mandatory dependency or of the database is
\* answered 5xx, and one whose only failure was DNS is not answered with an
\* error (violated: a row that goes missing between the lookup of the route
\* and the lookup of the service is answered 500)
C18_OutcomeClasses ==
  \A w \in Workers :
    LET t == tasks[w]
    IN t.pc = "done" =>
         /\ t.detail \in {"duplicate", "not_found"} =>
              t.status_code \in 400..499
         /\ t.failure # "none" => t.status_code \in 500..599
         /\ (t.dns = "failed" /\ t.failure = "none") => t.status_code < 400

\* C19: there is never more than one domain row of a name, and as long as no
\* domain was deleted no two requests for one name were both answered 201
C19_DomainUnique ==
  /\ \A r \in domains, q \in domains : r.domain = q.domain => r = q
  /\ Cardinality(domains) = domain_id_seq =>
       \A v \in Answered("create_domain"), w \in Answered("create_domain") :
         (/\ tasks[v].status_code = 201
          /\ tasks[w].status_code = 201
          /\ tasks[v].domain = tasks[w].domain) => v = w

\* two requests for one name both passed the existence check: one was
\* answered 201 and the other was refused by the index at its commit
C19_Witness ==
  \E v \in Answered("create_domain"), w \in Answered("create_domain") :
    /\ tasks[v].domain = tasks[w].domain
    /\ tasks[v].status_code = 201
    /\ tasks[w].failure = "db"
    /\ \E r \in domains : r.domain = tasks[w].domain /\ r.id = tasks[v].row_id

\* the decimal numbers of one byte
Octets == {ToString(n) : n \in 0..255}

\* a dotted quad
IsIPv4(s) ==
  /\ Len(s) = 7
  /\ \A i \in {2, 4, 6} : s[i] = "."
  /\ \A i \in {1, 3, 5, 7} : s[i] \in Octets

\* the lookup services of net that answered with an IPv4 address
WellFormed(net) ==
  {i \in 1..Len(net.services) : /\ net.services[i].ok
                                /\ IsIPv4(Strip(net.services[i].text))}

\* C20: get_public_ip returns the answer of the first lookup service that
\* answered with an IPv4 address, the address of the socket if none did, and
\* raises only if the socket method failed too (violated: the body of the
\* first 200 is returned whatever it is)
C20_FirstWellFormedWins ==
  probe.fn = "get_public_ip" =>
    LET net == probe.args
        good == WellFormed(net)
    IN IF good # {}
         THEN /\ probe.ok
              /\ probe.out =
                   Strip(net.services[CHOOSE i \in good :
                                        \A j \in good : i <= j].text)
         ELSE IF net.socket.ok
                THEN probe.ok /\ probe.out = net.socket.text
                ELSE ~probe.ok

\* C21: every request that was taken up is answered in the end (violated: a
\* child process started with no timeout that never exits holds its request
\* for ever)
C21_EveryAttemptEnds ==
  \A w \in Workers :
    [](tasks[w].pc \notin {"idle", "done"} => <>(tasks[w].pc = "done"))

\* C22: a domain created with its DNS records has in its row the SPF policy
\* that was upserted as its SPF record (violated: the address is looked up
\* once for the records and once more for the row)
C22_OneAddressPerAttempt ==
  \A w \in Answered("create_domain") :
    (tasks[w].status_code = 201 /\ tasks[w].dns = "created") =>
      \A r \in RecordsOf(zone, "TXT", tasks[w].domain) :
        r.content = RowOf(domains, tasks[w].row_id).spf_policy

\* the lines of domain d in KeyTable and in SigningTable
KeyLinesOf(d) == {KeyTable[i] : i \in KeyLines(d)}

SigningLinesOf(d) == {SigningTable[i] : i \in SigningLines(d)}

\* C23: a write of update_opendkim_tables for one domain leaves the lines of
\* every other domain in both tables as they were (violated: the filter of
\* KeyTable looks for the text .domain and a blank anywhere in the line, and
\* the line of a subdomain holds it)
C23_OtherDomainsKept ==
  [][\A w \in Workers, e \in TableDomains :
       (tasks[w].pc \in {"tbl_write_key", "tbl_write_signing"}
          /\ e # tasks[w].domain) =>
         /\ KeyLinesOf(e)' = KeyLinesOf(e)
         /\ SigningLinesOf(e)' = SigningLinesOf(e)]_vars

\* C24: a request that ended because the reload of the signing daemon failed
\* is answered with an error, and both tables hold the new entry of its
\* domain and no other line of that domain
C24_ReloadFailureKeepsTables ==
  \A w \in Workers :
    LET t == tasks[w]
    IN (t.pc = "done" /\ t.failure = "reload") =>
         /\ t.status_code >= 500
         /\ KeyLinesOf(t.domain) =
              {KeyEntry(t.domain, t.selector, t.private_key_path)}
         /\ SigningLinesOf(t.domain) = {SigningEntry(t.domain, t.selector)}
         /\ Cardinality(KeyLines(t.domain)) = 1
         /\ Cardinality(SigningLines(t.domain)) = 1

\* the reload failed in a rotation to another selector: the tables name the
\* new selector and the row still names the old one
C24_Witness ==
  \E w \in Answered("rotate_dkim") :
    /\ tasks[w].failure = "reload"
    /\ tasks[w].old.dkim_selector # tasks[w].selector
    /\ SigningLinesOf(tasks[w].domain) =
         {SigningEntry(tasks[w].domain, tasks[w].selector)}

\* the domain of task t has one row, one line in each table and one DNS
\* record of each type and name, and the row holds the key of the key file
Provisioned(t, rows, key_table, signing_table, records, files) ==
  /\ Cardinality({r \in rows : r.domain = t.domain}) = 1
  /\ \A r \in rows :
       r.domain = t.domain =>
         /\ r.dkim_private_path = t.private_key_path
         /\ r.dkim_public_key = <<Material(files[t.private_key_path].serial)>>
  /\ Cardinality({i \in 1..Len(key_table) :
                    KeyLineOf(key_table[i]).domain = t.domain}) = 1
  /\ Cardinality({i \in 1..Len(signing_table) :
                    SigningLineOf(signing_table[i]).domain = t.domain}) = 1
  /\ \A r \in records, q \in records :
       (r.type = q.type /\ r.name = q.name) => r = q

\* C25: no step removes or rewrites a key file, and a create_domain that
\* found the key file of an earlier attempt and met no failure of its own is
\* answered 201 with one row, one line in each table and one DNS record of
\* each type and name, the row holding the key that was found
C25_RetrySafe ==
  [][/\ \A p \in DOMAIN keyfiles :
          p \in DOMAIN keyfiles' /\ keyfiles'[p] = keyfiles[p]
     /\ \A w \in Workers :
          LET t == tasks'[w]
          IN (/\ tasks[w].pc # "done"
              /\ t.pc = "done"
              /\ t.op = "create_domain"
              /\ t.key_found
              /\ t.failure = "none") =>
               /\ t.status_code = 201
               /\ Provisioned(t, domains', KeyTable', SigningTable', zone',
                              keyfiles')]_vars

\* a domain was created with the key file an aborted attempt had left: the
\* key file was found, and there is no event of an earlier creation
C25_Witness ==
  \E w \in Answered("create_domain") :
    /\ tasks[w].status_code = 201
    /\ tasks[w].key_found
    /\ \A i \in 1..Len(events) :
         (events[i].type \in {"domain.created", "domain.dkim_rotated"}) =>
           events[i].payload.domain_id = tasks[w].row_id
    /\ Cardinality(RecordsOf(zone, "TXT", tasks[w].domain)) = 1

\* C26: the selector of every domain row is one validate_dkim_selector
\* accepts (violated: RotateDKIMRequest has no validator, and rotate_dkim_key
\* stores the selector as it was sent)
C26_SelectorsValid ==
  \A r \in domains : validate_dkim_selector(r.dkim_selector).ok

\* row with its three DKIM columns as they are in row old
WithDkimOf(row, old) ==
  [row EXCEPT !.dkim_selector = old.dkim_selector,
              !.dkim_private_path = old.dkim_private_path,
              !.dkim_public_key = old.dkim_public_key]

\* C27: every step of a rotate_dkim request leaves the rows of the other
\* domains as they are, changes in the row of its domain nothing but the
\* three DKIM columns, and adds, changes or removes no DNS record but the
\* TXT record named new_selector._domainkey.domain
C27_RotationFrame ==
  [][\A w \in Workers :
       LET t == tasks[w]
           name == DkimName(t.selector, t.domain)
       IN (t.op = "rotate_dkim" /\ t.pc \notin {"idle", "done"}) =>
            /\ KnownIds(domains') = KnownIds(domains)
            /\ \A r \in domains :
                 IF r.id = t.domain_id
                   THEN WithDkimOf(RowOf(domains', r.id), r) = r
                   ELSE r \in domains'
            /\ \A r \in zone \cup zone' :
                 (r.type # "TXT" \/ r.name # name) =>
                   (r \in zone /\ r \in zone')]_vars

\* a rotation to another selector was answered, its DNS record written: the
\* zone holds the DKIM records of both selectors, and the MX record
C27_Witness ==
  \E w \in Answered("rotate_dkim") :
    LET t == tasks[w]
    IN /\ t.status_code = 200
       /\ t.dns = "created"
       /\ t.old.dkim_selector # t.selector
       /\ RecordsOf(zone, "TXT", DkimName(t.selector, t.domain)) # {}
       /\ RecordsOf(zone, "TXT", DkimName(t.old.dkim_selector, t.domain)) # {}
       /\ RecordsOf(zone, "MX", t.domain) # {}
       /\ RowOf(domains, t.domain_id).dkim_selector = t.selector

\* C28: the domain.dkim_rotated event of an answered rotation names as
\* old_selector the selector the row had when the request came in, and as
\* new_selector the one that was sent (violated: old_selector is read from
\* the row after the new selector was assigned to it)
C28_EventNamesBothSelectors ==
  \A w \in Answered("rotate_dkim") :
    LET t == tasks[w]
    IN t.status_code = 200 =>
         /\ Len(events) > t.events_before
         /\ events[t.events_before + 1].payload.new_selector = t.selector
         /\ events[t.events_before + 1].payload.old_selector
              = t.old.dkim_selector

\* C29: while no request is being served, the tables hold for every domain
\* row exactly the lines of its selector and key path (violated: a rotation
\* that fails at the reload or at the commit has written the lines of the
\* new selector, and the row keeps the old one)
C29_TablesAgreeWithRows ==
  (\A w \in Workers : tasks[w].pc \in {"idle", "done"}) =>
    \A r \in domains :
      /\ KeyLinesOf(r.domain) =
           {KeyEntry(r.domain, r.dkim_selector, r.dkim_private_path)}
      /\ SigningLinesOf(r.domain) = {SigningEntry(r.domain, r.dkim_selector)}

\* C30: while no request is being served, the zone holds for every active
\* domain row its MX, SPF and DMARC records and the DKIM record of its
\* selector with its public key (violated: a rotation commits the new
\* selector, fails to upsert its DKIM record, and leaves the row active)
C30_ActiveMeansPublished ==
  (\A w \in Workers : tasks[w].pc \in {"idle", "done"}) =>
    \A r \in domains :
      r.status = "active" =>
        /\ RecordsOf(zone, "MX", r.domain) # {}
        /\ RecordsOf(zone, "TXT", r.domain) # {}
        /\ RecordsOf(zone, "TXT", <<"_dmarc", ".">> \o r.domain) # {}
        /\ \E q \in RecordsOf(zone, "TXT", DkimName(r.dkim_selector, r.domain)) :
             q.content = DkimValue(r.dkim_public_key)

\* C11: when requests for two different domains have both been through the
\* update of the tables, each table holds the line of both domains
C11_CrossDomainUpdatesKept ==
  LET a == tasks["w1"]
      b == tasks["w2"]
  IN (/\ a.pc = "done" /\ b.pc = "done"
      /\ {a.op, b.op} \subseteq {"create_domain", "rotate_dkim"}
      /\ a.public_key # NoMatch /\ b.public_key # NoMatch
      /\ a.domain # b.domain) =>
       \A t \in {a, b} :
         /\ \E i \in 1..Len(KeyTable) :
              KeyTable[i] = KeyEntry(t.domain, t.selector, t.private_key_path)
         /\ \E j \in 1..Len(SigningTable) :
              SigningTable[j] = SigningEntry(t.domain, t.selector)

\* C12: generate_dkim_key called for a domain and selector whose key file
\* exists leaves every key file as it is, so the tool is not run, and a call
\* that returns hands back the path of that file and the public key stored
\* with it: two calls for one domain and selector return the same key
C12_KeyReused ==
  [][/\ \A p \in DOMAIN keyfiles :
          p \in DOMAIN keyfiles' /\ keyfiles'[p] = keyfiles[p]
     /\ \A w \in Workers :
          LET path == PrivateKeyPath(tasks[w].domain, tasks[w].selector)
          IN (tasks[w].pc = "dk_genkey" /\ tasks'[w].pc # "dk_genkey") =>
               /\ path \in DOMAIN keyfiles => keyfiles' = keyfiles
               /\ tasks'[w].pc = "tbl_read_key" =>
                    /\ tasks'[w].private_key_path = path
                    /\ path \in DOMAIN keyfiles'
                    /\ tasks'[w].public_key
                         = <<Material(keyfiles'[path].serial)>>]_vars

\* a second call for a domain and selector has returned: the tables hold the
\* line an earlier request wrote with the key of the first call
C12_Witness ==
  \E w \in Workers :
    /\ tasks[w].pc = "tbl_read_key"
    /\ \E i \in 1..Len(KeyTable) :
         KeyTable[i] = KeyEntry(tasks[w].domain, tasks[w].selector,
                                tasks[w].private_key_path)
    /\ tasks[w].public_key
         = <<Material(keyfiles[tasks[w].private_key_path].serial)>>

=============================================================================
